---- MODULE Spec2Model ----
(***************************************************************************)
(* Faraday FTGMAC100 Ethernet driver (drivers/net/ftgmac100.c).            *)
(*                                                                         *)
(* The driver is one software thread (pc) that runs start, stop, send,     *)
(* recv and free_pkt to completion, one at a time, and a DMA engine that   *)
(* acts on the descriptor rings in memory whenever the MAC control         *)
(* register enables it.  The CPU reaches the descriptors through a data    *)
(* cache (one line per descriptor); the DMA engine reads and writes        *)
(* memory.  A register or descriptor word is a set of named bits plus its  *)
(* numeric field.                                                          *)
(***************************************************************************)
EXTENDS Integers, Sequences, FiniteSets, TLC

(* ------------------------------------------------------------------ *)
(* Program constants                                                   *)
(* ------------------------------------------------------------------ *)
ETH_ZLEN == 60
PKTBUFSTX == 4
PKTBUFSRX == 4
FTGMAC100_RBSR_DEFAULT == 1600
DescAlign == 16

(* ------------------------------------------------------------------ *)
(* Bounds of the model                                                 *)
(* ------------------------------------------------------------------ *)
\* submit lengths range over ETH_ZLEN - LenSpan .. ETH_ZLEN + LenSpan
LenSpan == 1
\* descriptor reads of the completion wait before the timer has expired
MaxPolls == 1

(* ------------------------------------------------------------------ *)
(* Values                                                              *)
(* ------------------------------------------------------------------ *)
TxIdx == 0..(PKTBUFSTX - 1)
RxIdx == 0..(PKTBUFSRX - 1)

\* error numbers returned by the driver (negated in the code)
EPERM == 1
EAGAIN == 11
EREMOTEIO == 121
ETIMEDOUT == 110

\* the three MAC control bits ftgmac100_phy_adjust_link owns
AdjustBits == {"GIGA_MODE", "FAST_MODE", "FULLDUP"}
\* the data-path enable bits
EnableBits == {"TXMAC_EN", "RXMAC_EN", "TXDMA_EN", "RXDMA_EN"}
\* the bits of the MAC control register the driver names
MaccrBits == EnableBits \cup AdjustBits \cup
             {"CRC_APD", "RX_RUNT", "RX_BROADPKT", "SW_RST"}

\* the error flags of rxdes0 that ftgmac100_recv tests
RxErrBits == {"RX_ERR", "CRC_ERR", "FTL", "RUNT", "RX_ODD_NB"}

\* FTGMAC100_TXDES0_TXBUF_SIZE(x): the 14-bit size field of txdes0
FTGMAC100_TXDES0_TXBUF_SIZE(x) == x % 16384
\* FTGMAC100_RXDES0_VDBC(x): the 14-bit byte count of rxdes0
FTGMAC100_RXDES0_VDBC(x) == x % 16384

\* the address of the caller's packet, and of receive buffer i
NetTxPacket == 9
net_rx_packets(i) == 1 + i

ZeroTxDes == [txdes0 |-> [bits |-> {}, size |-> 0], txdes3 |-> 0]
ZeroRxDes == [rxdes0 |-> [bits |-> {}, vdbc |-> 0], rxdes3 |-> 0]

\* a cache line holding no data
NoLine(z) == [valid |-> FALSE, dirty |-> FALSE, val |-> z]

VARIABLES
    \* configuration, fixed by probe / ofdata_to_platdata / the build
    ncsi_mode, rgmii, sz_txdes, sz_rxdes,
    \* struct ftgmac100_data
    tx_index, rx_index, phydev,
    \* descriptor rings: DMA-visible memory and the CPU's cache lines
    mtx, mrx, ctx, crx,
    \* the caller's packet data: in the CPU's cache only, or flushed to memory
    txbuf,
    \* device registers and DMA engine position
    maccr, regs, txpd, hwTx, hwRx,
    \* the software thread: operation, position, locals, return value
    op, pc, length, polls, data_start, rxlen, ret,
    \* the network layer's view: device active, received packet not yet freed
    active, rxHeld,
    \* PHY management started (phy_startup) and not shut down
    phy_on,
    \* history: start's steps in order; registers and cursors written and
    \* descriptors stored into by the operation; the length send was called
    \* with; per RX slot, the releases since its own last release
    startLog, written, touched, requested, relAge

vars == <<ncsi_mode, rgmii, sz_txdes, sz_rxdes, tx_index, rx_index, phydev,
          mtx, mrx, ctx, crx, txbuf, maccr, regs, txpd, hwTx, hwRx,
          op, pc, length, polls, data_start, rxlen, ret, active, rxHeld, phy_on,
          startLog, written, touched, requested, relAge>>

cfgVars == <<ncsi_mode, rgmii, sz_txdes, sz_rxdes>>
ringVars == <<mtx, mrx, ctx, crx>>
hwVars == <<maccr, regs, txpd, hwTx, hwRx>>

(* ------------------------------------------------------------------ *)
(* CoherencySync: the data cache over one descriptor ring              *)
(* ------------------------------------------------------------------ *)
\* the line of descriptor i, filled from memory when it holds no data
CacheLoad(c, m, i) ==
    IF c[i].valid THEN c
    ELSE [c EXCEPT ![i] = [valid |-> TRUE, dirty |-> FALSE, val |-> m[i]]]

\* what the CPU reads of descriptor i
CpuRead(c, m, i) == CacheLoad(c, m, i)[i].val

\* the CPU stores v into descriptor i
CpuWrite(c, i, v) == [c EXCEPT ![i] = [valid |-> TRUE, dirty |-> TRUE, val |-> v]]

\* flush_dcache_range over the descriptors S: dirty lines reach memory
FlushMem(c, m, S) ==
    [i \in DOMAIN m |-> IF i \in S /\ c[i].valid /\ c[i].dirty THEN c[i].val ELSE m[i]]

\* flush_dcache_range over the descriptors S: the lines are cleaned and dropped
FlushCache(c, S, z) ==
    [i \in DOMAIN c |-> IF i \in S THEN NoLine(z) ELSE c[i]]

\* invalidate_dcache_range over the descriptors S: lines dropped, dirty data lost
invalidate_dcache_range(c, S, z) ==
    [i \in DOMAIN c |-> IF i \in S THEN NoLine(z) ELSE c[i]]

(* ------------------------------------------------------------------ *)
(* Initial state: after probe, before the first start                  *)
(* ------------------------------------------------------------------ *)
DescSizes == {DescAlign, DescAlign + 8}
Speeds == {10, 100, 1000}
NoPhy == [link |-> FALSE, speed |-> 10, duplex |-> FALSE]

RegNames == {"mac_madr", "mac_ladr", "ier", "txr_badr", "rxr_badr",
             "aptc", "rbsr", "dblac"}

\* a register's value before the driver writes it
ResetValue(r) ==
    IF r = "rbsr" THEN FTGMAC100_RBSR_DEFAULT
    ELSE IF r = "dblac" THEN <<0, 0>>
    ELSE "reset"

\* the rest of the state after probe: private data zeroed, nothing in the
\* cache, registers at their reset values
Zeroed ==
    /\ tx_index = 0
    /\ rx_index = 0
    /\ mtx = [i \in TxIdx |-> ZeroTxDes]
    /\ mrx = [i \in RxIdx |-> ZeroRxDes]
    /\ ctx = [i \in TxIdx |-> NoLine(ZeroTxDes)]
    /\ crx = [i \in RxIdx |-> NoLine(ZeroRxDes)]
    /\ txbuf = "cached"
    /\ regs = [r \in RegNames |-> ResetValue(r)]
    /\ txpd = FALSE
    /\ hwTx = 0
    /\ hwRx = 0
    /\ length = 0
    /\ polls = 0
    /\ data_start = 0
    /\ rxlen = 0
    /\ ret = 0
    /\ active = FALSE
    /\ rxHeld = FALSE
    /\ phy_on = FALSE
    /\ startLog = <<>>
    /\ written = {}
    /\ touched = {}
    /\ requested = 0
    /\ relAge = [i \in RxIdx |-> PKTBUFSRX]

\* the state after probe of a device configured with an NC-SI mode of ncsis,
\* an RGMII interface of rgmiis and descriptor sizes of sizes
Probed(ncsis, rgmiis, sizes) ==
    /\ ncsi_mode \in ncsis
    /\ rgmii \in rgmiis
    /\ sz_txdes \in sizes
    /\ sz_rxdes \in sizes
    /\ phydev = NoPhy
    /\ maccr = {}
    /\ op = "none"
    /\ pc = "idle"
    /\ Zeroed

(* ------------------------------------------------------------------ *)
(* The software thread: calls and returns                              *)
(* ------------------------------------------------------------------ *)
idxVars == <<tx_index, rx_index>>
phyVars == <<phydev, phy_on>>
locals == <<length, polls, data_start, rxlen>>
netVars == <<active, rxHeld>>
histVars == <<startLog, written, touched, requested, relAge>>

\* the step of the running operation at position here moves to position next
Step(here, next) ==
    /\ pc = here
    /\ pc' = next
    /\ UNCHANGED <<op, ret>>

\* the running operation ends at position here with return value r
Leave(here, r) ==
    /\ pc = here
    /\ pc' = "ret"
    /\ ret' = r
    /\ UNCHANGED op

\* a register other than maccr is written
writel(r, v) ==
    /\ regs' = [regs EXCEPT ![r] = v]
    /\ written' = written \cup {r}

\* the network layer takes the return value: a start that returned 0 makes
\* the device active, a recv that returned a length leaves a packet to free
Return ==
    /\ pc = "ret"
    /\ pc' = "idle"
    /\ op' = "none"
    /\ ret' = 0
    /\ active' = IF op = "start" THEN ret = 0 ELSE active
    /\ rxHeld' = IF op = "recv" THEN ret >= 0
                 ELSE IF op \in {"free_pkt", "start"} THEN FALSE ELSE rxHeld
    /\ length' = 0
    /\ polls' = 0
    /\ data_start' = 0
    /\ rxlen' = 0
    /\ txbuf' = "cached"
    /\ startLog' = <<>>
    /\ written' = {}
    /\ touched' = {}
    /\ requested' = 0
    /\ UNCHANGED <<cfgVars, idxVars, phyVars, ringVars, hwVars, relAge>>

(* ------------------------------------------------------------------ *)
(* ftgmac100_start                                                     *)
(* ------------------------------------------------------------------ *)
StartCall ==
    /\ pc = "idle"
    /\ op' = "start"
    /\ pc' = "reset"
    /\ active' = FALSE
    /\ UNCHANGED <<cfgVars, idxVars, phyVars, ringVars, txbuf, hwVars, locals, ret,
                   rxHeld, histVars>>

\* what no step of start changes
StartFrame == UNCHANGED <<cfgVars, locals, netVars, txbuf, requested>>

\* ftgmac100_reset: setbits_le32(&maccr, SW_RST)
ftgmac100_reset ==
    /\ Step("reset", "reset_wait")
    /\ maccr' = maccr \cup {"SW_RST"}
    /\ written' = written \cup {"maccr"}
    /\ startLog' = Append(startLog, "reset")
    /\ StartFrame
    /\ UNCHANGED <<idxVars, phyVars, ringVars, regs, txpd, hwTx, hwRx, touched, relAge>>

\* ftgmac100_reset: the busy-wait leaves once the reset bit reads as clear
ftgmac100_reset_wait ==
    /\ Step("reset_wait", "set_mac")
    /\ "SW_RST" \notin maccr
    /\ StartFrame
    /\ UNCHANGED <<idxVars, phyVars, ringVars, hwVars, histVars>>

\* ftgmac100_set_mac
ftgmac100_set_mac ==
    /\ Step("set_mac", "ier")
    /\ regs' = [regs EXCEPT !["mac_madr"] = "enetaddr", !["mac_ladr"] = "enetaddr"]
    /\ written' = written \cup {"mac_madr", "mac_ladr"}
    /\ startLog' = Append(startLog, "set_mac")
    /\ StartFrame
    /\ UNCHANGED <<idxVars, phyVars, ringVars, maccr, txpd, hwTx, hwRx, touched, relAge>>

\* start_ier going on to the ring registers, the rings left as they are
start_ier_skipping ==
    /\ Step("ier", "txr_badr")
    /\ writel("ier", "0")
    /\ startLog' = Append(startLog, "ier")
    /\ StartFrame
    /\ UNCHANGED <<idxVars, phyVars, ringVars, maccr, txpd, hwTx, hwRx, touched, relAge>>

\* disable all interrupts
start_ier ==
    /\ Step("ier", "init_tx")
    /\ writel("ier", "0")
    /\ startLog' = Append(startLog, "ier")
    /\ StartFrame
    /\ UNCHANGED <<idxVars, phyVars, ringVars, maccr, txpd, hwTx, hwRx, touched, relAge>>

\* the TX ring as start writes it
InitTxDes(i) ==
    [txdes0 |-> [bits |-> IF i = PKTBUFSTX - 1 THEN {"EDOTR"} ELSE {}, size |-> 0],
     txdes3 |-> 0]

\* the RX ring as start writes it
InitRxDes(i) ==
    [rxdes0 |-> [bits |-> IF i = PKTBUFSRX - 1 THEN {"EDORR"} ELSE {}, vdbc |-> 0],
     rxdes3 |-> net_rx_packets(i)]

\* initialize descriptors: the indexes and the TX ring, through the cache
start_init_tx ==
    /\ Step("init_tx", "flush_tx")
    /\ tx_index' = 0
    /\ rx_index' = 0
    /\ ctx' = [i \in TxIdx |-> [valid |-> TRUE, dirty |-> TRUE, val |-> InitTxDes(i)]]
    /\ touched' = touched \cup {<<"tx", i>> : i \in TxIdx}
    /\ written' = written \cup {"tx_index", "rx_index"}
    /\ relAge' = [i \in RxIdx |-> PKTBUFSRX]
    /\ startLog' = Append(startLog, "init_tx")
    /\ StartFrame
    /\ UNCHANGED <<phyVars, mtx, mrx, crx, hwVars>>

start_flush_tx ==
    /\ Step("flush_tx", "init_rx")
    /\ mtx' = FlushMem(ctx, mtx, TxIdx)
    /\ ctx' = FlushCache(ctx, TxIdx, ZeroTxDes)
    /\ startLog' = Append(startLog, "flush_tx")
    /\ StartFrame
    /\ UNCHANGED <<idxVars, phyVars, mrx, crx, hwVars, written, touched, relAge>>

start_init_rx ==
    /\ Step("init_rx", "flush_rx")
    /\ crx' = [i \in RxIdx |-> [valid |-> TRUE, dirty |-> TRUE, val |-> InitRxDes(i)]]
    /\ touched' = touched \cup {<<"rx", i>> : i \in RxIdx}
    /\ startLog' = Append(startLog, "init_rx")
    /\ StartFrame
    /\ UNCHANGED <<idxVars, phyVars, mtx, mrx, ctx, hwVars, written, relAge>>

\* start going on to the ring registers with the RX ring left in the cache
start_flush_rx_skipped ==
    /\ Step("flush_rx", "txr_badr")
    /\ startLog' = Append(startLog, "flush_rx")
    /\ StartFrame
    /\ UNCHANGED <<idxVars, phyVars, ringVars, hwVars, written, touched, relAge>>

start_flush_rx ==
    /\ Step("flush_rx", "txr_badr")
    /\ mrx' = FlushMem(crx, mrx, RxIdx)
    /\ crx' = FlushCache(crx, RxIdx, ZeroRxDes)
    /\ startLog' = Append(startLog, "flush_rx")
    /\ StartFrame
    /\ UNCHANGED <<idxVars, phyVars, mtx, ctx, hwVars, written, touched, relAge>>

\* transmit ring: the DMA engine restarts at the ring's base
start_txr_badr ==
    /\ Step("txr_badr", "rxr_badr")
    /\ writel("txr_badr", "txdes")
    /\ hwTx' = 0
    /\ startLog' = Append(startLog, "txr_badr")
    /\ StartFrame
    /\ UNCHANGED <<idxVars, phyVars, ringVars, maccr, txpd, hwRx, touched, relAge>>

\* receive ring: the DMA engine restarts at the ring's base
start_rxr_badr ==
    /\ Step("rxr_badr", "aptc")
    /\ writel("rxr_badr", "rxdes")
    /\ hwRx' = 0
    /\ startLog' = Append(startLog, "rxr_badr")
    /\ StartFrame
    /\ UNCHANGED <<idxVars, phyVars, ringVars, maccr, txpd, hwTx, touched, relAge>>

\* poll receive descriptor automatically
start_aptc ==
    /\ Step("aptc", "rbsr")
    /\ writel("aptc", "RXPOLL_CNT(1)")
    /\ startLog' = Append(startLog, "aptc")
    /\ StartFrame
    /\ UNCHANGED <<idxVars, phyVars, ringVars, maccr, txpd, hwTx, hwRx, touched, relAge>>

\* config receive buffer size register
start_rbsr ==
    /\ Step("rbsr", "check_size")
    /\ writel("rbsr", FTGMAC100_RBSR_DEFAULT)
    /\ startLog' = Append(startLog, "rbsr")
    /\ StartFrame
    /\ UNCHANGED <<idxVars, phyVars, ringVars, maccr, txpd, hwTx, hwRx, touched, relAge>>

\* (sz_txdes & 0xF) || (sz_rxdes & 0xF)
DescSizeMismatch == sz_txdes % DescAlign /= 0 \/ sz_rxdes % DescAlign /= 0

\* the check made only after the descriptor sizes are in dblac
start_check_size_late ==
    /\ pc = "check_size"
    /\ pc' = IF DescSizeMismatch THEN "ret" ELSE "dblac"
    /\ ret' = IF DescSizeMismatch THEN -1 ELSE ret
    /\ IF DescSizeMismatch
       THEN writel("dblac", <<sz_txdes \div 8, sz_txdes \div 8>>)
       ELSE UNCHANGED <<regs, written>>
    /\ startLog' = Append(startLog, "check_size")
    /\ StartFrame
    /\ UNCHANGED <<op, idxVars, phyVars, ringVars, maccr, txpd, hwTx, hwRx, touched, relAge>>

\* config TX/RX descriptor size: the check, which fails start with -1
start_check_size ==
    /\ pc = "check_size"
    /\ pc' = IF DescSizeMismatch THEN "ret" ELSE "dblac"
    /\ ret' = IF DescSizeMismatch THEN -1 ELSE ret
    /\ startLog' = Append(startLog, "check_size")
    /\ StartFrame
    /\ UNCHANGED <<op, idxVars, phyVars, ringVars, hwVars, written, touched, relAge>>

\* config TX/RX descriptor size: both size fields take sz_txdes >> 3
start_dblac ==
    /\ Step("dblac", "enable")
    /\ writel("dblac", <<sz_txdes \div 8, sz_txdes \div 8>>)
    /\ startLog' = Append(startLog, "dblac")
    /\ StartFrame
    /\ UNCHANGED <<idxVars, phyVars, ringVars, maccr, txpd, hwTx, hwRx, touched, relAge>>

\* the control word start enables the transmitter and receiver with
StartMaccr == EnableBits \cup {"CRC_APD", "FULLDUP", "RX_RUNT", "RX_BROADPKT"}

\* enable transmitter, receiver
start_enable ==
    /\ Step("enable", "phy_startup")
    /\ maccr' = StartMaccr
    /\ written' = written \cup {"maccr"}
    /\ startLog' = Append(startLog, "enable")
    /\ StartFrame
    /\ UNCHANGED <<idxVars, phyVars, ringVars, regs, txpd, hwTx, hwRx, touched, relAge>>

\* the link states PHY management can report
LinkStates == [link : BOOLEAN, speed : Speeds, duplex : BOOLEAN]

\* phy_startup: waits for the link; fails, or leaves the link state in phydev
start_phy_startup(links) ==
    /\ pc = "phy_startup"
    /\ \/ /\ pc' = "ret"
          /\ ret' = -ETIMEDOUT
          /\ UNCHANGED phyVars
       \/ /\ pc' = "adjust"
          /\ ret' = ret
          /\ phydev' \in links
          /\ phy_on' = TRUE
    /\ startLog' = Append(startLog, "phy_startup")
    /\ StartFrame
    /\ UNCHANGED <<op, idxVars, ringVars, hwVars, written, touched, relAge>>

(* ------------------------------------------------------------------ *)
(* ftgmac100_phy_adjust_link                                           *)
(* ------------------------------------------------------------------ *)
\* the link test without the NC-SI exemption
NoLink_always == ~phydev.link

\* !phydev->link && !priv->ncsi_mode
NoLink == ~phydev.link /\ ~ncsi_mode

\* the control word with the gigabit bit set for speed 1000 on any interface
AdjustMaccr_anyInterface(old) ==
    (old \ AdjustBits)
    \cup (IF phydev.speed = 1000 THEN {"GIGA_MODE"} ELSE {})
    \cup (IF phydev.speed = 100 THEN {"FAST_MODE"} ELSE {})
    \cup (IF phydev.duplex THEN {"FULLDUP"} ELSE {})

\* the control word written for the link state, from the word old read first
AdjustMaccr(old) ==
    (old \ AdjustBits)
    \cup (IF rgmii /\ phydev.speed = 1000 THEN {"GIGA_MODE"} ELSE {})
    \cup (IF phydev.speed = 100 THEN {"FAST_MODE"} ELSE {})
    \cup (IF phydev.duplex THEN {"FULLDUP"} ELSE {})

ftgmac100_phy_adjust_link ==
    /\ pc = "adjust"
    /\ pc' = "ret"
    /\ ret' = IF NoLink THEN -EREMOTEIO ELSE 0
    /\ maccr' = IF NoLink THEN maccr ELSE AdjustMaccr(maccr)
    /\ written' = IF NoLink THEN written ELSE written \cup {"maccr"}
    /\ startLog' = Append(startLog, "adjust")
    /\ StartFrame
    /\ UNCHANGED <<op, idxVars, phyVars, ringVars, regs, txpd, hwTx, hwRx, touched, relAge>>

(* ------------------------------------------------------------------ *)
(* ftgmac100_stop                                                      *)
(* ------------------------------------------------------------------ *)
StopCall ==
    /\ pc = "idle"
    /\ op' = "stop"
    /\ pc' = "stop"
    /\ UNCHANGED <<cfgVars, idxVars, phyVars, ringVars, txbuf, hwVars, locals, ret,
                   netVars, histVars>>

\* stop clearing only the enable bits of the control word
ftgmac100_stop_masking ==
    /\ Leave("stop", 0)
    /\ maccr' = maccr \ EnableBits
    /\ written' = written \cup {"maccr"}
    /\ phy_on' = IF ncsi_mode THEN phy_on ELSE FALSE
    /\ active' = FALSE
    /\ UNCHANGED <<cfgVars, idxVars, phydev, ringVars, txbuf, regs, txpd, hwTx, hwRx,
                   locals, rxHeld, startLog, touched, requested, relAge>>

\* writel(0, &maccr), then phy_shutdown unless in NC-SI mode
ftgmac100_stop ==
    /\ Leave("stop", 0)
    /\ maccr' = {}
    /\ written' = written \cup {"maccr"}
    /\ phy_on' = IF ncsi_mode THEN phy_on ELSE FALSE
    /\ active' = FALSE
    /\ UNCHANGED <<cfgVars, idxVars, phydev, ringVars, txbuf, regs, txpd, hwTx, hwRx,
                   locals, rxHeld, startLog, touched, requested, relAge>>

(* ------------------------------------------------------------------ *)
(* ftgmac100_send                                                      *)
(* ------------------------------------------------------------------ *)
\* the lengths the network layer submits
Lengths == (ETH_ZLEN - LenSpan)..(ETH_ZLEN + LenSpan)

\* what no step of send changes
SendFrame == UNCHANGED <<cfgVars, rx_index, phyVars, mrx, crx, maccr, regs, hwTx, hwRx,
                         data_start, rxlen, netVars, startLog, relAge>>

SendCall(lengths) ==
    /\ pc = "idle"
    /\ active
    /\ op' = "send"
    /\ pc' = "send_invalidate"
    /\ length' \in lengths
    /\ requested' = length'
    /\ SendFrame
    /\ UNCHANGED <<tx_index, mtx, ctx, txbuf, txpd, polls, ret, written, touched>>

\* invalidate_dcache_range(des_start, des_end)
send_invalidate ==
    /\ Step("send_invalidate", "send_check")
    /\ ctx' = invalidate_dcache_range(ctx, {tx_index}, ZeroTxDes)
    /\ SendFrame
    /\ UNCHANGED requested
    /\ UNCHANGED <<tx_index, mtx, txbuf, txpd, length, polls, written, touched>>

\* send_check without the test of TXDMA_OWN
send_check_unchecked ==
    /\ Step("send_check", "send_txdes3")
    /\ ctx' = CacheLoad(ctx, mtx, tx_index)
    /\ SendFrame
    /\ UNCHANGED requested
    /\ UNCHANGED <<tx_index, mtx, txbuf, txpd, length, polls, written, touched>>

\* if (curr_des->txdes0 & FTGMAC100_TXDES0_TXDMA_OWN) return -EPERM
send_check ==
    /\ pc = "send_check"
    /\ LET own == "TXDMA_OWN" \in CpuRead(ctx, mtx, tx_index).txdes0.bits
       IN  /\ pc' = IF own THEN "ret" ELSE "send_txdes3"
           /\ ret' = IF own THEN -EPERM ELSE ret
    /\ ctx' = CacheLoad(ctx, mtx, tx_index)
    /\ SendFrame
    /\ UNCHANGED requested
    /\ UNCHANGED <<op, tx_index, mtx, txbuf, txpd, length, polls, written, touched>>

\* no padding
PadLength_none(len) == len

\* length = (length < ETH_ZLEN) ? ETH_ZLEN : length
PadLength(len) == IF len < ETH_ZLEN THEN ETH_ZLEN ELSE len

\* the padding, and curr_des->txdes3 = (unsigned int)packet
send_txdes3 ==
    /\ Step("send_txdes3", "send_flush_data")
    /\ length' = PadLength(length)
    /\ ctx' = CpuWrite(ctx, tx_index,
                       [CpuRead(ctx, mtx, tx_index) EXCEPT !.txdes3 = NetTxPacket])
    /\ touched' = touched \cup {<<"tx", tx_index>>}
    /\ SendFrame
    /\ UNCHANGED requested
    /\ UNCHANGED <<tx_index, mtx, txbuf, txpd, polls, written>>

\* send going on to the descriptor with the packet data left in the cache
send_flush_data_skipped ==
    /\ Step("send_flush_data", "send_txdes0")
    /\ SendFrame
    /\ UNCHANGED requested
    /\ UNCHANGED <<tx_index, mtx, ctx, txbuf, txpd, length, polls, written, touched>>

\* Flush data to be sent
send_flush_data ==
    /\ Step("send_flush_data", "send_txdes0")
    /\ txbuf' = "flushed"
    /\ SendFrame
    /\ UNCHANGED requested
    /\ UNCHANGED <<tx_index, mtx, ctx, txpd, length, polls, written, touched>>

\* txdes0 assigned outright, the end-of-ring bit not kept
PublishTxdes0_plain(txdes0, len) ==
    [bits |-> {"FTS", "LTS", "TXDMA_OWN"},
     size |-> FTGMAC100_TXDES0_TXBUF_SIZE(len)]

\* txdes0 &= edotr_mask; txdes0 |= FTS | LTS | TXBUF_SIZE(length) | TXDMA_OWN
PublishTxdes0(txdes0, len) ==
    [bits |-> (txdes0.bits \cap {"EDOTR"}) \cup {"FTS", "LTS", "TXDMA_OWN"},
     size |-> FTGMAC100_TXDES0_TXBUF_SIZE(len)]

\* Only one segment on TXBUF
send_txdes0 ==
    /\ Step("send_txdes0", "send_flush_desc")
    /\ LET d == CpuRead(ctx, mtx, tx_index)
       IN  ctx' = CpuWrite(ctx, tx_index,
                           [d EXCEPT !.txdes0 = PublishTxdes0(d.txdes0, length)])
    /\ touched' = touched \cup {<<"tx", tx_index>>}
    /\ SendFrame
    /\ UNCHANGED requested
    /\ UNCHANGED <<tx_index, mtx, txbuf, txpd, length, polls, written>>

\* Flush modified buffer descriptor
send_flush_desc ==
    /\ Step("send_flush_desc", "send_txpd")
    /\ mtx' = FlushMem(ctx, mtx, {tx_index})
    /\ ctx' = FlushCache(ctx, {tx_index}, ZeroTxDes)
    /\ SendFrame
    /\ UNCHANGED requested
    /\ UNCHANGED <<tx_index, txbuf, txpd, length, polls, written, touched>>

\* Start transmit: writel(1, &ftgmac100->txpd)
send_txpd ==
    /\ Step("send_txpd", "send_wait")
    /\ txpd' = TRUE
    /\ written' = written \cup {"txpd"}
    /\ SendFrame
    /\ UNCHANGED requested
    /\ UNCHANGED <<tx_index, mtx, ctx, txbuf, length, polls, touched>>

\* ftgmac100_read_txdesc: the cache after invalidating and reading descriptor i
ftgmac100_read_txdesc(c, m, i) ==
    CacheLoad(invalidate_dcache_range(c, {i}, ZeroTxDes), m, i)

\* wait_for_bit: what one pass of the wait does with the value read, after
\* n earlier passes: the bit is clear, or the timeout has elapsed, or it reads again
wait_for_bit(txdes0, n) ==
    IF "TXDMA_OWN" \notin txdes0.bits THEN "done"
    ELSE IF n >= MaxPolls THEN "timeout"
    ELSE "again"

\* send_wait moving to the next descriptor on a timeout too
send_wait_advancing ==
    /\ pc = "send_wait"
    /\ LET c1 == ftgmac100_read_txdesc(ctx, mtx, tx_index)
           rc == wait_for_bit(c1[tx_index].val.txdes0, polls)
       IN  /\ ctx' = c1
           /\ pc' = IF rc = "done" THEN "send_advance"
                    ELSE IF rc = "timeout" THEN "ret" ELSE pc
           /\ ret' = IF rc = "timeout" THEN -ETIMEDOUT ELSE ret
           /\ polls' = IF rc = "again" THEN polls + 1 ELSE polls
           /\ tx_index' = IF rc = "timeout" THEN (tx_index + 1) % PKTBUFSTX ELSE tx_index
    /\ SendFrame
    /\ UNCHANGED requested
    /\ UNCHANGED <<op, mtx, txbuf, txpd, length, written, touched>>

\* rc = wait_for_bit_ftgmac100_txdone(...); if (rc) return rc
send_wait ==
    /\ pc = "send_wait"
    /\ LET c1 == ftgmac100_read_txdesc(ctx, mtx, tx_index)
           rc == wait_for_bit(c1[tx_index].val.txdes0, polls)
       IN  /\ ctx' = c1
           /\ pc' = IF rc = "done" THEN "send_advance"
                    ELSE IF rc = "timeout" THEN "ret" ELSE pc
           /\ ret' = IF rc = "timeout" THEN -ETIMEDOUT ELSE ret
           /\ polls' = IF rc = "again" THEN polls + 1 ELSE polls
    /\ SendFrame
    /\ UNCHANGED requested
    /\ UNCHANGED <<op, tx_index, mtx, txbuf, txpd, length, written, touched>>

\* send_advance without the wrap to the start of the ring
send_advance_unwrapped ==
    /\ Leave("send_advance", 0)
    /\ tx_index' = tx_index + 1
    /\ written' = written \cup {"tx_index"}
    /\ SendFrame
    /\ UNCHANGED requested
    /\ UNCHANGED <<mtx, ctx, txbuf, txpd, length, polls, touched>>

\* Move to next descriptor
send_advance ==
    /\ Leave("send_advance", 0)
    /\ tx_index' = (tx_index + 1) % PKTBUFSTX
    /\ written' = written \cup {"tx_index"}
    /\ SendFrame
    /\ UNCHANGED requested
    /\ UNCHANGED <<mtx, ctx, txbuf, txpd, length, polls, touched>>

(* ------------------------------------------------------------------ *)
(* ftgmac100_recv                                                      *)
(* ------------------------------------------------------------------ *)
\* what no step of recv or free_pkt changes
RecvFrame == UNCHANGED <<cfgVars, tx_index, phyVars, mtx, ctx, txbuf, hwVars,
                         length, polls, netVars, startLog, requested>>

\* the call, and data_start = curr_des->rxdes3, read before the invalidate
RecvCall ==
    /\ pc = "idle"
    /\ active
    /\ ~rxHeld
    /\ op' = "recv"
    /\ pc' = "recv_invalidate"
    /\ data_start' = CpuRead(crx, mrx, rx_index).rxdes3
    /\ crx' = CacheLoad(crx, mrx, rx_index)
    /\ RecvFrame
    /\ UNCHANGED <<rx_index, mrx, rxlen, ret, touched, written, relAge>>

\* recv going on to the tests with the cached descriptor kept
recv_invalidate_skipped ==
    /\ Step("recv_invalidate", "recv_check")
    /\ RecvFrame
    /\ UNCHANGED <<rx_index, mrx, crx, data_start, rxlen, touched, written, relAge>>

\* invalidate_dcache_range(des_start, des_end)
recv_invalidate ==
    /\ Step("recv_invalidate", "recv_check")
    /\ crx' = invalidate_dcache_range(crx, {rx_index}, ZeroRxDes)
    /\ RecvFrame
    /\ UNCHANGED <<rx_index, mrx, data_start, rxlen, touched, written, relAge>>

\* recv_check handing a slot with an error flag back to the DMA engine
recv_check_rearming ==
    /\ pc = "recv_check"
    /\ LET d == CpuRead(crx, mrx, rx_index)
           ready == "RXPKT_RDY" \in d.rxdes0.bits
           bad == d.rxdes0.bits \cap RxErrBits /= {}
       IN  /\ pc' = IF ~ready \/ bad THEN "ret" ELSE "recv_data"
           /\ ret' = IF ~ready \/ bad THEN -EAGAIN ELSE ret
           /\ rxlen' = IF ~ready \/ bad THEN rxlen ELSE FTGMAC100_RXDES0_VDBC(d.rxdes0.vdbc)
           /\ mrx' = IF ready /\ bad
                     THEN [mrx EXCEPT ![rx_index].rxdes0.bits = @ \ {"RXPKT_RDY"}]
                     ELSE mrx
           /\ crx' = IF ready /\ bad
                     THEN invalidate_dcache_range(crx, {rx_index}, ZeroRxDes)
                     ELSE CacheLoad(crx, mrx, rx_index)
    /\ RecvFrame
    /\ UNCHANGED <<op, rx_index, data_start, touched, written, relAge>>

\* recv_check moving the cursor past a slot with an error flag
recv_check_passing ==
    /\ pc = "recv_check"
    /\ LET rxdes0 == CpuRead(crx, mrx, rx_index).rxdes0
           ready == "RXPKT_RDY" \in rxdes0.bits
           bad == rxdes0.bits \cap RxErrBits /= {}
       IN  /\ pc' = IF ~ready \/ bad THEN "ret" ELSE "recv_data"
           /\ ret' = IF ~ready \/ bad THEN -EAGAIN ELSE ret
           /\ rxlen' = IF ~ready \/ bad THEN rxlen ELSE FTGMAC100_RXDES0_VDBC(rxdes0.vdbc)
           /\ rx_index' = IF ready /\ bad THEN (rx_index + 1) % PKTBUFSRX ELSE rx_index
    /\ crx' = CacheLoad(crx, mrx, rx_index)
    /\ RecvFrame
    /\ UNCHANGED <<op, mrx, data_start, touched, written, relAge>>

\* the two tests of rxdes0, each returning -EAGAIN, and the length
recv_check ==
    /\ pc = "recv_check"
    /\ LET rxdes0 == CpuRead(crx, mrx, rx_index).rxdes0
           again == \/ "RXPKT_RDY" \notin rxdes0.bits
                    \/ rxdes0.bits \cap RxErrBits /= {}
       IN  /\ pc' = IF again THEN "ret" ELSE "recv_data"
           /\ ret' = IF again THEN -EAGAIN ELSE ret
           /\ rxlen' = IF again THEN rxlen ELSE FTGMAC100_RXDES0_VDBC(rxdes0.vdbc)
    /\ crx' = CacheLoad(crx, mrx, rx_index)
    /\ RecvFrame
    /\ UNCHANGED <<op, rx_index, mrx, data_start, touched, written, relAge>>

\* Invalidate received data; *packetp = data_start; return rxlen
recv_data ==
    /\ Leave("recv_data", rxlen)
    /\ RecvFrame
    /\ UNCHANGED <<rx_index, mrx, crx, data_start, rxlen, touched, written, relAge>>

(* ------------------------------------------------------------------ *)
(* ftgmac100_free_pkt                                                  *)
(* ------------------------------------------------------------------ *)
FreePktCall ==
    /\ pc = "idle"
    /\ active
    /\ rxHeld
    /\ op' = "free_pkt"
    /\ pc' = "free_clear"
    /\ RecvFrame
    /\ UNCHANGED <<rx_index, mrx, crx, data_start, rxlen, ret, touched, written, relAge>>

\* Release buffer to DMA: curr_des->rxdes0 &= ~FTGMAC100_RXDES0_RXPKT_RDY
free_clear ==
    /\ Step("free_clear", "free_flush")
    /\ LET d == CpuRead(crx, mrx, rx_index)
       IN  crx' = CpuWrite(crx, rx_index,
                           [d EXCEPT !.rxdes0.bits = @ \ {"RXPKT_RDY"}])
    /\ touched' = touched \cup {<<"rx", rx_index>>}
    /\ RecvFrame
    /\ UNCHANGED <<rx_index, mrx, data_start, rxlen, written, relAge>>

\* and flush descriptor
free_flush ==
    /\ Step("free_flush", "free_advance")
    /\ mrx' = FlushMem(crx, mrx, {rx_index})
    /\ crx' = FlushCache(crx, {rx_index}, ZeroRxDes)
    /\ RecvFrame
    /\ UNCHANGED <<rx_index, data_start, rxlen, touched, written, relAge>>

\* free_advance leaving the cursor where it is
free_advance_staying ==
    /\ Leave("free_advance", 0)
    /\ relAge' = [i \in RxIdx |-> IF i = rx_index THEN 0
                                  ELSE IF relAge[i] < PKTBUFSRX THEN relAge[i] + 1
                                  ELSE relAge[i]]
    /\ RecvFrame
    /\ UNCHANGED <<rx_index, mrx, crx, data_start, rxlen, touched, written>>

\* Move to next descriptor
free_advance ==
    /\ Leave("free_advance", 0)
    /\ rx_index' = (rx_index + 1) % PKTBUFSRX
    /\ written' = written \cup {"rx_index"}
    /\ relAge' = [i \in RxIdx |-> IF i = rx_index THEN 0
                                  ELSE IF relAge[i] < PKTBUFSRX THEN relAge[i] + 1
                                  ELSE relAge[i]]
    /\ RecvFrame
    /\ UNCHANGED <<mrx, crx, data_start, rxlen, touched>>

(* ------------------------------------------------------------------ *)
(* The MAC and its DMA engine                                          *)
(* ------------------------------------------------------------------ *)
\* what the hardware never changes
HwFrame == UNCHANGED <<cfgVars, idxVars, phyVars, ctx, crx, txbuf, regs,
                       op, pc, ret, locals, netVars, histVars>>

\* the software reset completes: the bit clears itself and the MAC is back
\* in its reset state, the data path disabled
HwReset ==
    /\ "SW_RST" \in maccr
    /\ maccr' = {}
    /\ txpd' = FALSE
    /\ HwFrame
    /\ UNCHANGED <<mtx, mrx, hwTx, hwRx>>

TxEnabled == {"TXDMA_EN", "TXMAC_EN"} \subseteq maccr
RxEnabled == {"RXDMA_EN", "RXMAC_EN"} \subseteq maccr

\* the descriptor after the one at i in the ring the DMA engine walks
HwNext(i, eor, n) == IF eor THEN 0 ELSE (i + 1) % n

\* after a doorbell the engine finds its next TX descriptor owned: it sends the
\* frame, hands the descriptor back and moves on
HwTxComplete ==
    /\ TxEnabled
    /\ txpd
    /\ "TXDMA_OWN" \in mtx[hwTx].txdes0.bits
    /\ mtx' = [mtx EXCEPT ![hwTx].txdes0.bits = @ \ {"TXDMA_OWN"}]
    /\ hwTx' = HwNext(hwTx, "EDOTR" \in mtx[hwTx].txdes0.bits, PKTBUFSTX)
    /\ HwFrame
    /\ UNCHANGED <<mrx, maccr, txpd, hwRx>>

\* the engine finds its next TX descriptor not owned and waits for a doorbell
HwTxIdle ==
    /\ TxEnabled
    /\ txpd
    /\ "TXDMA_OWN" \notin mtx[hwTx].txdes0.bits
    /\ txpd' = FALSE
    /\ HwFrame
    /\ UNCHANGED <<mtx, mrx, maccr, hwTx, hwRx>>

\* the error flags a received frame can carry
HwRxErrors == {{}} \cup {{e} : e \in RxErrBits}

\* a frame arrives while the engine's next RX descriptor is free: the engine
\* fills the buffer, writes length and status and marks the packet ready
HwRx(errors) ==
    /\ RxEnabled
    /\ "RXPKT_RDY" \notin mrx[hwRx].rxdes0.bits
    /\ \E err \in errors :
         mrx' = [mrx EXCEPT ![hwRx].rxdes0 =
                   [bits |-> (@.bits \cap {"EDORR"}) \cup {"RXPKT_RDY", "FRS", "LRS"} \cup err,
                    vdbc |-> ETH_ZLEN]]
    /\ hwRx' = HwNext(hwRx, "EDORR" \in mrx[hwRx].rxdes0.bits, PKTBUFSRX)
    /\ HwFrame
    /\ UNCHANGED <<mtx, maccr, txpd, hwTx>>

(* ------------------------------------------------------------------ *)
(* The driver and the hardware together                                *)
(* ------------------------------------------------------------------ *)
\* start, with PHY management reporting one of links
StartSteps(links) ==
    \/ StartCall
    \/ ftgmac100_reset
    \/ ftgmac100_reset_wait
    \/ ftgmac100_set_mac
    \/ start_ier
    \/ start_init_tx
    \/ start_flush_tx
    \/ start_init_rx
    \/ start_flush_rx
    \/ start_txr_badr
    \/ start_rxr_badr
    \/ start_aptc
    \/ start_rbsr
    \/ start_check_size
    \/ start_dblac
    \/ start_enable
    \/ start_phy_startup(links)
    \/ ftgmac100_phy_adjust_link
    \/ HwReset

StopSteps ==
    \/ StopCall
    \/ ftgmac100_stop

SendSteps(lengths) ==
    \/ SendCall(lengths)
    \/ send_invalidate
    \/ send_check
    \/ send_txdes3
    \/ send_flush_data
    \/ send_txdes0
    \/ send_flush_desc
    \/ send_txpd
    \/ send_wait
    \/ send_advance

RecvSteps ==
    \/ RecvCall
    \/ recv_invalidate
    \/ recv_check
    \/ recv_data
    \/ FreePktCall
    \/ free_clear
    \/ free_flush
    \/ free_advance

\* a gigabit full-duplex link that is up
LinkUp == [link |-> TRUE, speed |-> 1000, duplex |-> TRUE]

\* a device on an RGMII PHY with descriptors of the aligned size
InitRing == Probed({FALSE}, {TRUE}, {DescAlign})

\* every configuration
Init == Probed(BOOLEAN, BOOLEAN, DescSizes)

\* the transmit path: start, stop, send and the TX DMA engine
NextTx ==
    \/ StartSteps({LinkUp})
    \/ StopSteps
    \/ SendSteps(Lengths)
    \/ HwTxComplete
    \/ HwTxIdle
    \/ Return

SpecTx == InitRing /\ [][NextTx]_vars

\* the receive path: start, stop, recv, free_pkt and the RX DMA engine
NextRx ==
    \/ StartSteps({LinkUp})
    \/ StopSteps
    \/ RecvSteps
    \/ HwRx(HwRxErrors)
    \/ Return

SpecRx == InitRing /\ [][NextRx]_vars

\* the life cycle: start and stop under every configuration and link state
NextLink ==
    \/ StartSteps(LinkStates)
    \/ StopSteps
    \/ Return

SpecLink == Init /\ [][NextLink]_vars

\* ftgmac100_phy_adjust_link on its own: entered with any control word in the
\* register and any link state, under every configuration
AdjustInit ==
    /\ ncsi_mode \in BOOLEAN
    /\ rgmii \in BOOLEAN
    /\ sz_txdes = DescAlign
    /\ sz_rxdes = DescAlign
    /\ phydev \in LinkStates
    /\ maccr \in SUBSET MaccrBits
    /\ op = "start"
    /\ pc = "adjust"
    /\ Zeroed

NextAdjust ==
    \/ ftgmac100_phy_adjust_link
    \/ Return

SpecAdjust == AdjustInit /\ [][NextAdjust]_vars

\* both data paths together: start, stop, send, recv, free_pkt and both DMA
\* engines, with frames of the minimum length and error-free reception
NextRing ==
    \/ StartSteps({LinkUp})
    \/ StopSteps
    \/ SendSteps({ETH_ZLEN})
    \/ RecvSteps
    \/ HwTxComplete
    \/ HwTxIdle
    \/ HwRx({{}})
    \/ Return

SpecRing == InitRing /\ [][NextRing]_vars

\* the transmit path of a device with or without NC-SI
InitStop == Probed(BOOLEAN, {TRUE}, {DescAlign})

SpecStop == InitStop /\ [][NextTx]_vars

\* the steps the CPU takes once an operation has been called: the driver runs
\* to its return without being preempted, so each of them is taken when it
\* stays possible; what the hardware does, and when, is left open
DriverStep ==
    \/ ftgmac100_reset
    \/ ftgmac100_reset_wait
    \/ ftgmac100_set_mac
    \/ start_ier
    \/ start_init_tx
    \/ start_flush_tx
    \/ start_init_rx
    \/ start_flush_rx
    \/ start_txr_badr
    \/ start_rxr_badr
    \/ start_aptc
    \/ start_rbsr
    \/ start_check_size
    \/ start_dblac
    \/ start_enable
    \/ start_phy_startup({LinkUp})
    \/ ftgmac100_phy_adjust_link
    \/ ftgmac100_stop
    \/ send_invalidate
    \/ send_check
    \/ send_txdes3
    \/ send_flush_data
    \/ send_txdes0
    \/ send_flush_desc
    \/ send_txpd
    \/ send_wait
    \/ send_advance
    \/ Return

\* the transmit path with the CPU running the driver
SpecTxLive == InitRing /\ [][NextTx]_vars /\ WF_vars(DriverStep)

(* ------------------------------------------------------------------ *)
(* Properties                                                          *)
(* ------------------------------------------------------------------ *)
TxOwned(m, i) == "TXDMA_OWN" \in m[i].txdes0.bits
RxReady(m, i) == "RXPKT_RDY" \in m[i].rxdes0.bits

\* C1: a send that finds the descriptor at tx_index hardware-owned returns
\* -EPERM, and a send that returns -EPERM has stored into no descriptor, has
\* written neither tx_index nor any register (so not the doorbell), and none
\* of its steps changed descriptor memory, the cursor or the doorbell.
C1_FullRingNoMutation ==
    [][ /\ (send_check /\ TxOwned(mtx, tx_index) => pc' = "ret" /\ ret' = -EPERM)
        /\ (op' = "send" /\ pc' = "ret" /\ ret' = -EPERM
              => /\ touched' = {}
                 /\ written' = {}
                 /\ \A i \in TxIdx : ~ctx'[i].dirty)
        /\ (send_check /\ ret' = -EPERM
              => mtx' = mtx /\ tx_index' = tx_index /\ txpd' = txpd)
      ]_vars

C1_Witness ==
    /\ op = "send" /\ pc = "ret" /\ ret = -EPERM
    /\ TxOwned(mtx, tx_index)

\* C2: the completion wait of send returns exactly when the timeout has
\* elapsed with the descriptor still hardware-owned in memory; it then returns
\* -ETIMEDOUT, the descriptor at tx_index is still hardware-owned and tx_index
\* has not been written since the call.
C2_TimeoutKeepsSlot ==
    [][ send_wait =>
          /\ (pc' = "ret") <=> (polls >= MaxPolls /\ TxOwned(mtx, tx_index))
          /\ pc' = "ret" => /\ ret' = -ETIMEDOUT
                            /\ TxOwned(mtx', tx_index')
                            /\ tx_index' = tx_index
                            /\ "tx_index" \notin written'
      ]_vars

C2_Witness ==
    /\ op = "send" /\ pc = "ret" /\ ret = -ETIMEDOUT
    /\ "txpd" \in written
    /\ TxOwned(mtx, tx_index)

\* C3: recv returns -EAGAIN while the descriptor at rx_index is hardware-owned
\* (RXPKT_RDY clear in memory) and goes on to return a packet only when it is
\* software-owned; the flush of free_pkt leaves the released descriptor
\* hardware-owned; and the slot a recv reads has seen PKTBUFSRX - 1 releases of
\* other slots since its own last release.
C3_RxHandshake ==
    [][ /\ (recv_check =>
              /\ (~RxReady(mrx, rx_index) => pc' = "ret" /\ ret' = -EAGAIN)
              /\ (pc' = "recv_data" => RxReady(mrx, rx_index))
              /\ relAge[rx_index] >= PKTBUFSRX - 1)
        /\ (recv_data => ret' >= 0 /\ RxReady(mrx, rx_index))
        /\ (free_flush => ~RxReady(mrx', rx_index))
      ]_vars

C3_Witness ==
    /\ op = "recv" /\ pc = "ret" /\ ret >= 0
    /\ relAge[rx_index] = PKTBUFSRX - 1
    /\ RxReady(mrx, rx_index)

\* the steps of ftgmac100_recv
RecvStep == RecvCall \/ recv_invalidate \/ recv_check \/ recv_data

\* C4: no step of recv changes rx_index or any RX descriptor, in memory or as
\* a store left in the cache, whatever the outcome; a ready slot with the CRC
\* error flag makes recv return -EAGAIN with the slot still ready.
C4_PollChangesNothing ==
    [][ /\ (RecvStep => /\ rx_index' = rx_index
                        /\ mrx' = mrx
                        /\ touched' = {}
                        /\ \A i \in RxIdx : ~crx'[i].dirty)
        /\ (recv_check /\ RxReady(mrx, rx_index)
              /\ "CRC_ERR" \in mrx[rx_index].rxdes0.bits
              => pc' = "ret" /\ ret' = -EAGAIN /\ RxReady(mrx', rx_index'))
      ]_vars

C4_Witness ==
    /\ op = "recv" /\ pc = "ret" /\ ret = -EAGAIN
    /\ {"RXPKT_RDY", "CRC_ERR"} \subseteq mrx[rx_index].rxdes0.bits

\* the length the padding law asks for
PaddedLength(len) == IF len < ETH_ZLEN THEN ETH_ZLEN ELSE len

\* C5: the size field send writes into the descriptor is 60 when the
\* requested length is below 60 and the requested length otherwise: in the
\* cache once txdes0 is written, in memory once the descriptor is flushed.
C5_PaddingLaw ==
    /\ (op = "send" /\ pc = "send_flush_desc"
          => ctx[tx_index].val.txdes0.size = PaddedLength(requested))
    /\ (op = "send" /\ pc \in {"send_txpd", "send_wait", "send_advance"}
          => mtx[tx_index].txdes0.size = PaddedLength(requested))

C5_Witness ==
    /\ op = "send" /\ pc = "send_wait"
    /\ requested < ETH_ZLEN
    /\ mtx[tx_index].txdes0.size = ETH_ZLEN

\* C6: a successful ftgmac100_phy_adjust_link writes a control word with
\* GIGA_MODE set iff the interface is RGMII and the speed 1000, FAST_MODE set
\* iff the speed is 100, FULLDUP equal to the duplex, and every other bit as
\* in the control word before.
C6_AdjustWord ==
    [][ ftgmac100_phy_adjust_link /\ ret' = 0 =>
          /\ ("GIGA_MODE" \in maccr') <=> (rgmii /\ phydev.speed = 1000)
          /\ ("FAST_MODE" \in maccr') <=> (phydev.speed = 100)
          /\ ("FULLDUP" \in maccr') <=> phydev.duplex
          /\ maccr' \ AdjustBits = maccr \ AdjustBits
      ]_vars

C6_Witness ==
    /\ op = "start" /\ pc = "ret" /\ ret = 0
    /\ phydev.speed = 1000 /\ ~rgmii
    /\ "GIGA_MODE" \notin maccr
    /\ "SW_RST" \in maccr

\* C7: with the link down and no NC-SI mode ftgmac100_phy_adjust_link ends
\* start with -EREMOTEIO, the control register not written; otherwise it
\* returns 0; a start that returned an error does not make the device active.
C7_NoLinkFatal ==
    [][ /\ (ftgmac100_phy_adjust_link =>
              IF ~phydev.link /\ ~ncsi_mode
              THEN /\ op' = "start" /\ pc' = "ret" /\ ret' = -EREMOTEIO
                   /\ maccr' = maccr /\ written' = written
              ELSE ret' = 0)
        /\ (Return /\ op = "start" /\ ret /= 0 => ~active')
      ]_vars

C7_Witness ==
    /\ op = "start" /\ pc = "ret" /\ ret = -EREMOTEIO
    /\ ~phydev.link /\ ~ncsi_mode

\* the place of a step of start in the order the claim gives (0: not named)
ClaimRank(l) ==
    CASE l = "reset" -> 1
      [] l = "set_mac" -> 2
      [] l \in {"init_tx", "flush_tx", "init_rx", "flush_rx"} -> 3
      [] l = "check_size" -> 4
      [] l = "ier" -> 5
      [] l = "enable" -> 6
      [] l = "phy_startup" -> 7
      [] l = "adjust" -> 8
      [] OTHER -> 0

\* the place of a step of start in the order of the code (0: not named)
CodeRank(l) ==
    CASE l = "reset" -> 1
      [] l = "set_mac" -> 2
      [] l = "ier" -> 3
      [] l \in {"init_tx", "flush_tx", "init_rx", "flush_rx"} -> 4
      [] l = "check_size" -> 5
      [] l = "enable" -> 6
      [] l = "phy_startup" -> 7
      [] l = "adjust" -> 8
      [] OTHER -> 0

\* the named steps start has taken so far came in the order of rank, none
\* skipped, and a start that returns 0 has taken all eight
InOrder(rank(_)) ==
    LET named == SelectSeq(startLog, LAMBDA l : rank(l) /= 0)
    IN  /\ \A i, j \in DOMAIN named : i < j => rank(named[i]) <= rank(named[j])
        /\ \A i \in DOMAIN named : \A r \in 1..rank(named[i]) :
               \E j \in 1..i : rank(named[j]) = r
        /\ (op = "start" /\ pc = "ret" /\ ret = 0
              => \E i \in DOMAIN named : rank(named[i]) = 8)

\* C8 as stated: start's steps come in the order reset, MAC address, rings,
\* descriptor-size validation, interrupt masking, enable, PHY link-up, adjust.
C8_Original == InOrder(ClaimRank)

\* C8: start's steps come in the order reset, MAC address, interrupt masking,
\* rings, descriptor-size validation, enable, PHY link-up, adjust.
C8_StartOrder == InOrder(CodeRank)

C8_Witness ==
    /\ op = "start" /\ pc = "ret" /\ ret = 0
    /\ Len(startLog) = 16

\* the device registers among the names in w
DeviceRegs(w) == w \cap (RegNames \cup {"maccr", "txpd"})

\* C9 as stated: a start that fails on the descriptor size has written no
\* device register and the enable bits are not set.
C9_Original ==
    op = "start" /\ pc = "ret" /\ ret = -1
      => DeviceRegs(written) = {} /\ maccr \cap EnableBits = {}

\* C9: a start that fails on the descriptor size has reset the MAC and written
\* the MAC address, interrupt-enable, ring base, poll-count and buffer-size
\* registers, but not the descriptor-length register nor the enable word, and
\* the enable bits are not set.
C9_SizeErrorAfterSetup ==
    op = "start" /\ pc = "ret" /\ ret = -1
      => /\ DeviceRegs(written) = {"maccr", "mac_madr", "mac_ladr", "ier",
                                   "txr_badr", "rxr_badr", "aptc", "rbsr"}
         /\ \A i \in DOMAIN startLog : startLog[i] \notin {"dblac", "enable"}
         /\ maccr \cap EnableBits = {}

C9_Witness ==
    /\ op = "start" /\ pc = "ret" /\ ret = -1
    /\ DescSizeMismatch

\* C10 as stated: while the caller may touch its TX buffer (send is not
\* running, or has returned) no hardware-owned TX descriptor points to it, and
\* while a received packet is held the descriptor of its buffer is not
\* hardware-owned.
C10_Original ==
    /\ (op /= "send" \/ pc = "ret"
          => \A i \in TxIdx : ~(TxOwned(mtx, i) /\ mtx[i].txdes3 = NetTxPacket))
    /\ (rxHeld \/ (op = "recv" /\ pc = "ret" /\ ret >= 0)
          => RxReady(mrx, rx_index))

\* what stop leaves alone: the cursors, both rings in memory and in the cache,
\* the other registers and the position of the DMA engine
StopKeeps ==
    /\ tx_index' = tx_index /\ rx_index' = rx_index
    /\ mtx' = mtx /\ mrx' = mrx /\ ctx' = ctx /\ crx' = crx
    /\ regs' = regs /\ txpd' = txpd /\ hwTx' = hwTx /\ hwRx' = hwRx

\* C11 as stated: stop clears the enable bits, shuts PHY management down,
\* leaves the other control-word bits as they were and changes nothing else.
C11_Original ==
    [][ ftgmac100_stop =>
          /\ maccr' \cap EnableBits = {}
          /\ maccr' \ EnableBits = maccr \ EnableBits
          /\ ~phy_on'
          /\ StopKeeps
      ]_vars

\* C11: stop writes zero to the whole MAC control register, so the enable bits
\* and every other control bit are clear, shuts PHY management down unless the
\* device is in NC-SI mode, and changes neither the cursors nor any descriptor.
C11_StopClearsWord ==
    [][ ftgmac100_stop =>
          /\ maccr' = {}
          /\ phy_on' = (ncsi_mode /\ phy_on)
          /\ StopKeeps
      ]_vars

C11_Witness ==
    /\ op = "stop" /\ pc = "ret"
    /\ \E i \in TxIdx : TxOwned(mtx, i)
    /\ ncsi_mode /\ phy_on
    /\ maccr = {}

\* C12 as stated: no operation spins forever, whatever the hardware does:
\* every operation that has been called reaches its return.
C12_Original == (op /= "none") ~> (pc = "ret")

\* the completion wait of send is bounded: a send that has been called returns
SendReturns == (op = "send") ~> (pc = "ret")

\* start has published both rings: they are flushed and their base addresses
\* are in the ring base registers
RingsPublished == regs["txr_badr"] = "txdes" /\ regs["rxr_badr"] = "rxdes"

\* C13: once start has published the rings, in memory and in every cached
\* copy the CPU holds, the end-of-ring flag is on the last descriptor of each
\* ring and on no other.
C13_EndOfRing ==
    RingsPublished =>
      /\ \A i \in TxIdx :
           /\ ("EDOTR" \in mtx[i].txdes0.bits) <=> (i = PKTBUFSTX - 1)
           /\ ctx[i].valid => (("EDOTR" \in ctx[i].val.txdes0.bits) <=> (i = PKTBUFSTX - 1))
      /\ \A i \in RxIdx :
           /\ ("EDORR" \in mrx[i].rxdes0.bits) <=> (i = PKTBUFSRX - 1)
           /\ crx[i].valid => (("EDORR" \in crx[i].val.rxdes0.bits) <=> (i = PKTBUFSRX - 1))

\* the last descriptor of each ring has been through a send, and through a
\* reception and a release
C13_Witness ==
    /\ RingsPublished
    /\ {"EDOTR", "FTS", "LTS"} \subseteq mtx[PKTBUFSTX - 1].txdes0.bits
    /\ {"EDORR", "FRS"} \subseteq mrx[PKTBUFSRX - 1].rxdes0.bits
    /\ ~RxReady(mrx, PKTBUFSRX - 1)
    /\ relAge[PKTBUFSRX - 1] < PKTBUFSRX

\* C14: both cursors stay inside their rings; the last step of a successful
\* send moves tx_index to (tx_index + 1) % PKTBUFSTX and the last step of
\* free_pkt moves rx_index to (rx_index + 1) % PKTBUFSRX; a send that fails
\* has not written tx_index; and no other step but the ring initialisation of
\* start changes either cursor.
C14_CursorArithmetic ==
    [][ /\ tx_index' \in TxIdx /\ rx_index' \in RxIdx
        /\ (send_advance => /\ ret' = 0
                            /\ tx_index' = (tx_index + 1) % PKTBUFSTX
                            /\ rx_index' = rx_index)
        /\ (free_advance => /\ rx_index' = (rx_index + 1) % PKTBUFSRX
                            /\ tx_index' = tx_index)
        /\ (op' = "send" /\ pc' = "ret" /\ ret' /= 0 => "tx_index" \notin written')
        /\ (~(send_advance \/ free_advance \/ start_init_tx)
              => tx_index' = tx_index /\ rx_index' = rx_index)
      ]_vars

\* a send and a release have each just wrapped their cursor back to 0
C14_Witness ==
    /\ op = "send" /\ pc = "ret" /\ ret = 0
    /\ "tx_index" \in written /\ tx_index = 0
    /\ rx_index = 0 /\ relAge[PKTBUFSRX - 1] = 0

\* C15: send sets TXDMA_OWN in the descriptor, flushes the descriptor and rings
\* the doorbell only with the packet data already flushed; the flush of the
\* descriptor is what makes it hardware-owned in memory; the doorbell is rung
\* with the descriptor flushed and pointing to the packet; and from the write
\* of txdes3 to the end of the completion wait the descriptor at tx_index is
\* never hardware-owned in memory while the packet data is not flushed.
C15_PublicationOrder ==
    [][ /\ (send_txdes0 \/ send_flush_desc \/ send_txpd => txbuf = "flushed")
        /\ (send_flush_desc => ~TxOwned(mtx, tx_index) /\ TxOwned(mtx', tx_index))
        /\ (send_txpd => /\ ~ctx[tx_index].dirty
                         /\ mtx[tx_index].txdes3 = NetTxPacket
                         /\ "txpd" \notin written)
        /\ (op' = "send" /\ pc' \notin {"send_invalidate", "send_check", "ret"}
              /\ TxOwned(mtx', tx_index')
              => txbuf' = "flushed")
      ]_vars

C15_Witness ==
    /\ op = "send" /\ pc = "send_txpd"
    /\ TxOwned(mtx, tx_index) /\ mtx[tx_index].txdes3 = NetTxPacket
    /\ txbuf = "flushed"

\* no store to a descriptor is waiting in the cache
NoneDirty == (\A i \in TxIdx : ~ctx[i].dirty) /\ (\A i \in RxIdx : ~crx[i].dirty)

\* C16: the descriptor words send, its completion wait, recv and free_pkt act
\* on are the ones in memory, not a stale cached copy: the ownership tests of
\* send and recv, each read of the completion wait, the txdes0 send keeps the
\* end-of-ring bit of, the rxdes0 free_pkt clears the ready bit in and the
\* buffer address recv returns; and no store to a descriptor is left in the
\* cache when the doorbell is rung or when send, recv or free_pkt returns.
C16_CoherencyDiscipline ==
    [][ /\ (send_check => CpuRead(ctx, mtx, tx_index) = mtx[tx_index])
        /\ (send_txdes0 => CpuRead(ctx, mtx, tx_index).txdes0 = mtx[tx_index].txdes0)
        /\ (send_wait => ctx'[tx_index].val = mtx[tx_index])
        /\ (RecvCall => data_start' = mrx[rx_index].rxdes3)
        /\ (recv_check => CpuRead(crx, mrx, rx_index) = mrx[rx_index])
        /\ (free_clear => CpuRead(crx, mrx, rx_index) = mrx[rx_index])
        /\ (send_txpd => NoneDirty)
        /\ (op' \in {"send", "recv", "free_pkt"} /\ pc' = "ret" => NoneDirty')
      ]_vars

\* send has tested the descriptor at tx_index after an earlier send timed out
\* on it and the DMA engine completed it late
C16_Witness ==
    /\ op = "send" /\ pc = "send_txdes3"
    /\ hwTx /= tx_index
    /\ ~TxOwned(mtx, tx_index)

\* C17: from the end of start's ring initialisation until the enable word is
\* written, whatever the rings held before: both cursors are 0, every TX
\* descriptor in memory is software-owned with a zero buffer address, every
\* RX descriptor in memory has the ready bit clear and points to its own
\* receive buffer, and nothing of either ring is left unflushed in the cache.
C17_StartReinitialises ==
    op = "start"
      /\ pc \in {"txr_badr", "rxr_badr", "aptc", "rbsr", "check_size", "dblac", "enable"}
      => /\ tx_index = 0 /\ rx_index = 0
         /\ \A i \in TxIdx : ~TxOwned(mtx, i) /\ mtx[i].txdes3 = 0
         /\ \A i \in RxIdx : ~RxReady(mrx, i) /\ mrx[i].rxdes3 = net_rx_packets(i)
         /\ NoneDirty
         /\ maccr \cap EnableBits = {}

\* a restart after traffic: the DMA engines had moved along both rings
C17_Witness ==
    /\ op = "start" /\ pc = "txr_badr"
    /\ hwTx = 1 /\ hwRx = 2
    /\ \A i \in TxIdx : ~TxOwned(mtx, i) /\ mtx[i].txdes3 = 0
    /\ \A i \in RxIdx : ~RxReady(mrx, i)

\* the descriptor at rx_index is software-owned and carries an error flag
ErrorSlot == RxReady(mrx, rx_index) /\ mrx[rx_index].rxdes0.bits \cap RxErrBits /= {}

\* C18: a recv that finds the slot at rx_index software-owned with an error
\* flag returns -EAGAIN, and while the slot is in that state no step of recv
\* or of the DMA engine changes it or moves rx_index (only free_pkt, or the
\* ring initialisation of a new start, would): every later recv finds it as
\* it was and returns -EAGAIN again.
C18_ErrorSlotStalls ==
    [][ ErrorSlot =>
          /\ (recv_check => pc' = "ret" /\ ret' = -EAGAIN)
          /\ (~(free_flush \/ free_advance \/ start_init_tx \/ start_flush_rx)
                => rx_index' = rx_index /\ mrx'[rx_index] = mrx[rx_index])
      ]_vars

\* recv has returned nothing for an error slot while the next slot holds an
\* error-free frame
C18_Witness ==
    /\ op = "recv" /\ pc = "ret" /\ ret = -EAGAIN
    /\ ErrorSlot
    /\ RxReady(mrx, (rx_index + 1) % PKTBUFSRX)
    /\ mrx[(rx_index + 1) % PKTBUFSRX].rxdes0.bits \cap RxErrBits = {}

\* C19 as stated: whenever send rings the doorbell, the descriptor it has
\* published, at tx_index, is the one the DMA engine fetches next.
C19_Original == [][ send_txpd => hwTx = tx_index ]_vars

\* C20 as stated: a start that returns an error leaves the MAC-enable and
\* DMA-enable bits of the MAC control register clear.
C20_Original ==
    op = "start" /\ pc = "ret" /\ ret /= 0 => maccr \cap EnableBits = {}

====
